---------------------------- MODULE Spec2Model ----------------------------
(***************************************************************************)
(* A model of plugins/modules/pip.py (ansible-uv): the requirement         *)
(* specifier reconstruction (_recover_package_name) and the run of main(): *)
(* umask override, environment provisioning, validation, command           *)
(* execution and change detection.                                         *)
(*                                                                         *)
(* Python strings that the code inspects character by character are        *)
(* sequences of one-character strings; a list of strings is a sequence of  *)
(* such sequences.                                                          *)
(***************************************************************************)
EXTENDS Integers, Sequences, FiniteSets, TLC

VARIABLES
    \* ---- a call of _recover_package_name
    names,            \* the argument: a list of raw strings
    package_names,    \* the list returned
    rpc,              \* "input" | "returned"
    \* ---- a run of main()
    params,           \* module.params and module.check_mode
    venv_exists,      \* os.path.exists(<env>/bin/activate) at line 562
    system_umask,     \* the process umask before the run
    proc_umask,       \* the process umask
    old_umask,        \* main's local old_umask
    venv_created,     \* main's local venv_created
    out_freeze_before,\* main's local out_freeze_before
    out_freeze_after, \* main's local out_freeze_after
    last,             \* rc and output of the last main / dry-run command
    calls,            \* the subprocess calls issued so far, in order
    rcs,              \* the exit code of each of them
    outcome,          \* "none" | "exit" (exit_json) | "fail" (fail_json) |
                      \* "crash" (uncaught exception)
    msg,              \* which fail_json call or exception ended the run
    changed,          \* the changed value passed to exit_json
    pc                \* position of the run

rvars == <<names, package_names, rpc>>
mvars == <<params, venv_exists, system_umask, proc_umask, old_umask,
           venv_created, out_freeze_before, out_freeze_after, last, calls,
           rcs,
           outcome, msg, changed, pc>>
vars == <<names, package_names, rpc, params, venv_exists, system_umask,
          proc_umask, old_umask, venv_created, out_freeze_before,
          out_freeze_after, last, calls, rcs,
          outcome, msg, changed, pc>>

\* An optional value is a set with at most one element.
None == {}
Some(x) == {x}
Value(o) == CHOOSE x \in o : TRUE

-----------------------------------------------------------------------------
(* Strings                                                                 *)

\* str.startswith(prefix)
StartsWith(s, p) ==
    /\ Len(p) <= Len(s)
    /\ SubSeq(s, 1, Len(p)) = p

\* c in s
Contains(s, c) == \E i \in 1..Len(s) : s[i] = c

Whitespace == {" ", "\t", "\n", "\r", "\f"}

\* str.lstrip()
RECURSIVE LStrip(_)
LStrip(s) ==
    IF s # <<>> /\ Head(s) \in Whitespace THEN LStrip(Tail(s)) ELSE s

\* s.split(sep) for a one-character separator
RECURSIVE SplitBy(_, _)
SplitBy(s, sep) ==
    IF ~Contains(s, sep)
    THEN <<s>>
    ELSE LET i == CHOOSE k \in 1..Len(s) :
                      s[k] = sep /\ \A j \in 1..(k - 1) : s[j] # sep
         IN  <<SubSeq(s, 1, i - 1)>> \o SplitBy(SubSeq(s, i + 1, Len(s)), sep)

\* sep.join(parts)
RECURSIVE JoinBy(_, _)
JoinBy(parts, sep) ==
    IF parts = <<>> THEN <<>>
    ELSE IF Len(parts) = 1 THEN parts[1]
    ELSE parts[1] \o <<sep>> \o JoinBy(Tail(parts), sep)

\* one_line.split(",", 1)
SplitOnce(s) ==
    IF ~Contains(s, ",")
    THEN <<s>>
    ELSE LET i == CHOOSE k \in 1..Len(s) :
                      s[k] = "," /\ \A j \in 1..(k - 1) : s[j] # ","
         IN  <<SubSeq(s, 1, i - 1), SubSeq(s, i + 1, Len(s))>>

\* one_line.split(",")
Split(s) == SplitBy(s, ",")

\* ",".join(parts)
Join(parts) == JoinBy(parts, ",")

\* the keys of op_dict
op_dict == { <<">", "=">>, <<"<", "=">>, <<">">>, <<"<">>,
             <<"=", "=">>, <<"!", "=">>, <<"~", "=">> }

\* the alternatives of _VCS_RE, each followed by "+"
VcsPrefixes == { <<"s", "v", "n", "+">>, <<"g", "i", "t", "+">>,
                 <<"h", "g", "+">>, <<"b", "z", "r", "+">> }

\* re.match(_VCS_RE, name)
IsVcsUrl(name) == \E p \in VcsPrefixes : StartsWith(name, p)

IsPackageNameNoStrip(name) == ~ \E p \in op_dict : StartsWith(name, p)

IsPackageName(name) == ~ \E p \in op_dict : StartsWith(LStrip(name), p)

-----------------------------------------------------------------------------
(* _recover_package_name                                                   *)

\* lines 317-320: tmp.extend(one_line.split(",")) for every input line
RECURSIVE Flatten(_)
Flatten(ns) ==
    IF ns = <<>> THEN <<>> ELSE Split(Head(ns)) \o Flatten(Tail(ns))

ScanBodyNoBrackets(st, name) ==
    LET boundary == IsPackageName(name)
        flushed  == IF boundary /\ st.name_parts # <<>>
                    THEN Append(st.package_names, Join(st.name_parts))
                    ELSE st.package_names
        parts    == IF boundary THEN <<>> ELSE st.name_parts
    IN  [name_parts    |-> Append(parts, name),
         package_names |-> flushed,
         in_brackets   |-> FALSE]

ScanBodyDropFirst(st, name) ==
    LET boundary == IsPackageName(name) /\ ~st.in_brackets
        flushed  == IF boundary /\ st.name_parts # <<>>
                    THEN Append(st.package_names, Join(st.name_parts))
                    ELSE st.package_names
        parts    == IF boundary THEN <<>> ELSE st.name_parts
        opened   == IF Contains(name, "[") THEN TRUE ELSE st.in_brackets
        inbr     == IF opened /\ Contains(name, "]") THEN FALSE ELSE opened
    IN  [name_parts    |-> IF boundary \/ st.name_parts # <<>>
                           THEN Append(parts, name) ELSE parts,
         package_names |-> flushed,
         in_brackets   |-> inbr]

\* lines 327-335: one iteration of the loop over the flat token list
ScanBody(st, name) ==
    LET boundary == IsPackageName(name) /\ ~st.in_brackets
        flushed  == IF boundary /\ st.name_parts # <<>>
                    THEN Append(st.package_names, Join(st.name_parts))
                    ELSE st.package_names
        parts    == IF boundary THEN <<>> ELSE st.name_parts
        opened   == IF Contains(name, "[") THEN TRUE ELSE st.in_brackets
        inbr     == IF opened /\ Contains(name, "]") THEN FALSE ELSE opened
    IN  [name_parts    |-> Append(parts, name),
         package_names |-> flushed,
         in_brackets   |-> inbr]

\* lines 323-335: the loop, from the state st over the tokens toks
RECURSIVE Scan(_, _)
Scan(st, toks) ==
    IF toks = <<>> THEN st ELSE Scan(ScanBody(st, Head(toks)), Tail(toks))

\* lines 316-337
RecoverPackageName(ns) ==
    LET st == Scan([name_parts |-> <<>>, package_names |-> <<>>,
                    in_brackets |-> FALSE], Flatten(ns))
    IN  Append(st.package_names, Join(st.name_parts))


-----------------------------------------------------------------------------
(* A call of _recover_package_name on a caller's name list                 *)

MaxTokens == 4

\* tokens a caller's name list is assembled from
TokenPool == { <<"a">>, <<"<", "1">>, <<" ", "=", "=", "1">>,
               <<"b", "[", "x">>, <<"y", "]">>, <<>> }

\* the inputs of the docstring, lines 310 and 313
DocSplit == << <<"d", "j", "a", "n", "g", "o", ">", "1", ".", "1", "1", ".", "1">>, <<"<", "1", ".", "1", "1", ".", "3">>, <<"i", "p", "a", "d", "d", "r", "e", "s", "s">>,
               <<"s", "i", "m", "p", "l", "e", "p", "r", "o", "j", "e", "c", "t", ">", "1", ".", "1", ".", "0">>, <<"<", "2", ".", "0", ".", "0">> >>
DocJoined == << <<"d", "j", "a", "n", "g", "o", ">", "1", ".", "1", "1", ".", "1", ",", "<", "1", ".", "1", "1", ".", "3", ",", "i", "p", "a", "d", "d", "r", "e", "s", "s">>,
                <<"s", "i", "m", "p", "l", "e", "p", "r", "o", "j", "e", "c", "t", ">", "1", ".", "1", ".", "0", ",", "<", "2", ".", "0", ".", "0">> >>
\* the return value of the docstring, lines 311 and 314
DocReturn == << <<"d", "j", "a", "n", "g", "o", ">", "1", ".", "1", "1", ".", "1", ",", "<", "1", ".", "1", "1", ".", "3">>, <<"i", "p", "a", "d", "d", "r", "e", "s", "s">>,
                <<"s", "i", "m", "p", "l", "e", "p", "r", "o", "j", "e", "c", "t", ">", "1", ".", "1", ".", "0", ",", "<", "2", ".", "0", ".", "0">> >>

RecoverIdle ==
    /\ names = <<>>
    /\ package_names = <<>>
    /\ rpc = "idle"

MainIdle ==
    /\ params = None
    /\ venv_exists = FALSE
    /\ system_umask = 0
    /\ proc_umask = 0
    /\ old_umask = None
    /\ venv_created = FALSE
    /\ out_freeze_before = None
    /\ out_freeze_after = None
    /\ last = None
    /\ calls = <<>>
    /\ rcs = <<>>
    /\ outcome = "none"
    /\ msg = None
    /\ changed = None
    /\ pc = "idle"

InitRecover ==
    /\ names \in {<<>>, DocSplit, DocJoined}
    /\ package_names = <<>>
    /\ rpc = "input"
    /\ MainIdle

\* the caller adds an element to the name list (name: type list, line 508)
AddLine(tok) ==
    /\ rpc = "input"
    /\ Len(Flatten(names)) < MaxTokens
    /\ names' = Append(names, tok)
    /\ UNCHANGED <<package_names, rpc>>
    /\ UNCHANGED mvars

\* the caller writes a further comma-separated clause into the last element
ExtendLine(tok) ==
    /\ rpc = "input"
    /\ names # <<>>
    /\ Len(Flatten(names)) < MaxTokens
    /\ names' = [names EXCEPT ![Len(names)] = @ \o <<",">> \o tok]
    /\ UNCHANGED <<package_names, rpc>>
    /\ UNCHANGED mvars

\* line 594: _recover_package_name(name), reached only with a non-empty name
Recover ==
    /\ rpc = "input"
    /\ names # <<>>
    /\ package_names' = RecoverPackageName(names)
    /\ rpc' = "returned"
    /\ UNCHANGED names
    /\ UNCHANGED mvars

NextRecover ==
    \/ \E tok \in TokenPool : AddLine(tok)
    \/ \E tok \in TokenPool : ExtendLine(tok)
    \/ Recover

SpecRecover == InitRecover /\ [][NextRecover]_vars

-----------------------------------------------------------------------------
(* Properties of _recover_package_name                                     *)

\* the comma-flattened token stream of the argument
Tokens == Flatten(names)

\* tok begins, after leading whitespace, with a comparison operator
StartsWithComparison(tok) ==
    \E k \in 1..Len(tok) :
        /\ \A j \in 1..(k - 1) : tok[j] \in Whitespace
        /\ \/ tok[k] \in {">", "<"}
           \/ tok[k] \in {"=", "!", "~"} /\ k < Len(tok) /\ tok[k + 1] = "="

\* tok opens an extras bracket that it does not close itself
OpensBracket(tok) == Contains(tok, "[") /\ ~Contains(tok, "]")

\* an extras bracket is open when token i of toks is reached
BracketOpenBefore(toks, i) ==
    \E j \in 1..(i - 1) :
        /\ OpensBracket(toks[j])
        /\ \A k \in (j + 1)..(i - 1) : ~Contains(toks[k], "]")

\* the tokens that look like a package name while no bracket is open
Boundaries(toks) ==
    { i \in 1..Len(toks) :
        ~StartsWithComparison(toks[i]) /\ ~BracketOpenBefore(toks, i) }

\* the k-th smallest element of a set of indices
NthIndex(S, k) == CHOOSE s \in S : Cardinality({t \in S : t < s}) = k - 1

\* toks cut into consecutive groups that start at the indices in S,
\* each group joined with ","
PartitionAt(toks, S) ==
    [g \in 1..Cardinality(S) |->
        LET from == NthIndex(S, g)
            to   == IF g = Cardinality(S) THEN Len(toks)
                    ELSE NthIndex(S, g + 1) - 1
        IN  Join(SubSeq(toks, from, to))]

\* the number of tokens in the first g requirements of the list out
RECURSIVE TokenCount(_, _)
TokenCount(out, g) ==
    IF g = 0 THEN 0 ELSE TokenCount(out, g - 1) + Len(Split(out[g]))

\* the indices of the tokens at which a requirement of the list out starts
StartsOf(out) == { TokenCount(out, g - 1) + 1 : g \in 1..Len(out) }

\* C1 as stated: the returned list is the token stream cut exactly at the
\* tokens that do not start with a comparison operator while no extras
\* bracket is open, each group joined with ","; the docstring input returns
\* the docstring output.
C1_GroupsOpenExactlyAtPackageTokens ==
    rpc = "returned" =>
        /\ package_names = PartitionAt(Tokens, Boundaries(Tokens))
        /\ names = DocSplit => package_names = DocReturn

\* C1 (amended): the returned list is the token stream cut at its first
\* token and at every later token that does not start with a comparison
\* operator while no extras bracket is open, each group joined with ",";
\* the docstring input returns the docstring output.
C1_GroupsOpenAtFirstAndPackageTokens ==
    rpc = "returned" =>
        /\ package_names = PartitionAt(Tokens, Boundaries(Tokens) \cup {1})
        /\ names = DocSplit => package_names = DocReturn

C1_Witness ==
    /\ rpc = "returned"
    /\ Len(package_names) >= 2
    /\ StartsWithComparison(Tokens[1])
    /\ \E i \in 2..Len(Tokens) : i \notin StartsOf(package_names)

\* C2: the returned list is the one returned for the fully split form of
\* the argument (so two arguments with the same comma-flattened token
\* stream return the same list, as the two docstring inputs do), and
\* applying the function to the returned list returns it unchanged.
C2_DependsOnTokenStreamAndIdempotent ==
    rpc = "returned" =>
        /\ RecoverPackageName(Tokens) = package_names
        /\ RecoverPackageName(package_names) = package_names
        /\ names = DocJoined => package_names = RecoverPackageName(DocSplit)

C2_Witness ==
    /\ rpc = "returned"
    /\ names # Tokens
    /\ \E i \in 1..Len(names) : Len(Split(names[i])) >= 3
    /\ Len(package_names) >= 2
    /\ package_names # Tokens

\* C3: after a token that opens an extras bracket without closing it, no
\* requirement starts at any following token up to and including the next
\* token containing "]" (so they all lie in the requirement of the opening
\* token), and the token after the closing one starts a requirement iff it
\* does not start with a comparison operator.
C3_NoBoundaryInsideBrackets ==
    rpc = "returned" =>
        \A j \in 1..Len(Tokens) :
            OpensBracket(Tokens[j]) =>
                LET closers == { k \in (j + 1)..Len(Tokens) :
                                    Contains(Tokens[k], "]") }
                    close   == IF closers = {} THEN Len(Tokens)
                               ELSE CHOOSE k \in closers :
                                        \A m \in closers : k <= m
                IN  /\ \A k \in (j + 1)..close :
                           k \notin StartsOf(package_names)
                    /\ close < Len(Tokens) =>
                           ( (close + 1) \in StartsOf(package_names)
                             <=> ~StartsWithComparison(Tokens[close + 1]) )

C3_Witness ==
    /\ rpc = "returned"
    /\ Len(Tokens) = 4
    /\ OpensBracket(Tokens[1])
    /\ ~StartsWithComparison(Tokens[2]) /\ ~Contains(Tokens[2], "]")
    /\ Contains(Tokens[3], "]")
    /\ ~StartsWithComparison(Tokens[4])
    /\ Len(package_names) = 2

-----------------------------------------------------------------------------
(* Helpers of main() and setup_virtualenv()                                *)

\* shlex.split(s) for a string without quotes or escapes
RECURSIVE ShlexSplit(_)
ShlexSplit(s) ==
    LET t == LStrip(s)
    IN  IF t = <<>> THEN <<>>
        ELSE LET stops == { k \in 1..Len(t) : t[k] \in Whitespace }
                 n     == IF stops = {} THEN Len(t) + 1
                          ELSE CHOOSE k \in stops : \A m \in stops : k <= m
             IN  <<SubSeq(t, 1, n - 1)>> \o ShlexSplit(SubSeq(t, n, Len(t)))

\* os.path.basename(path)
Basename(path) ==
    LET slashes == { k \in 1..Len(path) : path[k] = "/" }
    IN  IF slashes = {} THEN path
        ELSE SubSeq(path, (CHOOSE k \in slashes : \A m \in slashes : m <= k) + 1,
                    Len(path))

\* os.path.isabs(path)
IsAbs(path) == StartsWith(path, <<"/">>)

\* truth value of an optional string or list
Truthy(o) == o # None /\ Value(o) # <<>>

OctalDigits == <<"0", "1", "2", "3", "4", "5", "6", "7">>

IsOctal(s) ==
    /\ s # <<>>
    /\ \A i \in 1..Len(s) : \E d \in 1..Len(OctalDigits) : OctalDigits[d] = s[i]

\* int(s, 8) for a string of octal digits
RECURSIVE IntBase8(_)
IntBase8(s) ==
    IF s = <<>> THEN 0
    ELSE IntBase8(SubSeq(s, 1, Len(s) - 1)) * 8
         + (CHOOSE d \in 0..7 : OctalDigits[d + 1] = s[Len(s)])

\* _is_venv_command: argv[0] == 'pyvenv', or the (last) -m option is venv
IsVenvCommand(command) ==
    LET argv == ShlexSplit(command)
        ms   == { i \in 2..(Len(argv) - 1) : argv[i] = <<"-", "m">> }
    IN  \/ argv[1] = <<"p", "y", "v", "e", "n", "v">>
        \/ /\ ms # {}
           /\ argv[(CHOOSE i \in ms : \A k \in ms : k <= i) + 1] = <<"v", "e", "n", "v">>

\* Package.has_version_specifier: _VERSION_OPS_RE.search(text)
HasVersionSpecifier(text) ==
    \E i \in 1..Len(text) : \E op \in op_dict :
        /\ i + Len(op) - 1 <= Len(text)
        /\ SubSeq(text, i, i + Len(op) - 1) = op

\* lines 586-591
HasVcs(name) ==
    /\ Truthy(name)
    /\ \E i \in 1..Len(Value(name)) :
           Value(name)[i] # <<>> /\ IsVcsUrl(Value(name)[i])

\* lines 610-617: extra_args after the editable option has been applied
ExtraArgs(p) ==
    IF p.editable
    THEN LET args_list == IF Truthy(p.extra_args)
                          THEN SplitBy(Value(p.extra_args), " ") ELSE <<>>
         IN  IF \E i \in 1..Len(args_list) : args_list[i] = <<"-", "e">>
             THEN p.extra_args
             ELSE Some(JoinBy(Append(args_list, <<"-", "e">>), " "))
    ELSE p.extra_args

ConservativeCheckNamesOnly(p) ==
    \/ Truthy(ExtraArgs(p))
    \/ p.state = "latest"

\* line 638
ConservativeCheck(p) ==
    \/ Truthy(ExtraArgs(p))
    \/ Truthy(p.requirements)
    \/ p.state = "latest"
    \/ ~Truthy(p.name)

NeedsSnapshotRequirementsOnly(p) == Truthy(p.requirements)

\* line 654
NeedsSnapshot(p) == Truthy(p.requirements) \/ HasVcs(p.name)

WhitelistedStdoutOnly(rc, state, out_pip, err_pip) ==
    /\ rc = 1
    /\ state = "absent"
    /\ "not installed" \in out_pip

WhitelistedAnyState(rc, state, out_pip, err_pip) ==
    /\ rc = 1
    /\ ("not installed" \in out_pip \/ "not installed" \in err_pip)

\* lines 660-661
Whitelisted(rc, state, out_pip, err_pip) ==
    /\ rc = 1
    /\ state = "absent"
    /\ ("not installed" \in out_pip \/ "not installed" \in err_pip)

GetPackagesCallsWithFallback(rc) ==
    IF rc # 0 THEN <<"list", "freeze">> ELSE <<"list">>

\* the exit codes recorded for the calls cs of one helper that saw rc
ExitCodes(cs, rc) == [i \in 1..Len(cs) |-> rc]

\* _get_packages: the subprocess calls it issues (line 357)
GetPackagesCalls(rc) == <<"list">>

-----------------------------------------------------------------------------
(* The inputs of a run                                                     *)

States == {"present", "absent", "latest", "forcereinstall"}

\* name: one requirement, two requirements in one element, a requirement
\* and its version clause, a VCS url, and the empty list
NameInputs == { << <<"a">> >>, << <<"a", ",", "b">> >>, << <<"a">>, <<"<", "1">> >>,
                << <<"g", "i", "t", "+", "x">> >>, <<>> }

Versions == { <<"1", ".", "0">> }

RequirementsInputs == { <<>>, <<"r", ".", "t", "x", "t">> }

VenvPath == <<"/", "v">>

\* virtualenv_command: the default (line 513), and two venv-style commands
DefaultVenvCommand == <<"u", "v", " ", "v", "e", "n", "v">>
VenvCommands == { DefaultVenvCommand, <<"p", "y", "v", "e", "n", "v">>,
                  <<"/", "u", "s", "r", "/", "b", "i", "n", "/", "p", "y", "t", "h", "o", "n", "3", " ", "-", "m", " ", "v", "e", "n", "v">> }

VenvPython == <<"p", "y", "t", "h", "o", "n", "3">>

ExtraArgsInputs == { <<"-", "-", "p", "r", "e">> }

\* executable: the default (line 518), and an absolute path
DefaultExecutable == <<"u", "v", " ", "p", "i", "p">>
Executables == { DefaultExecutable, <<"/", "o", "p", "t", "/", "u", "v", " ", "p", "i", "p">> }

\* umask: the empty string, an octal string and a malformed one
UmaskInputs == { <<>>, <<"0", "7", "7">>, <<"0", "8">> }

SystemUmasks == {18}

ReturnCodes == {0, 1, 2}

\* the phrases main looks for in the output of the main command
OutMarkers == {"not installed", "Successfully uninstalled",
               "Successfully installed"}
ErrMarkers == {"not installed"}
\* the phrases main looks for in the stderr of the dry run (line 649)
DryRunMarkers == {"Would uninstall", "Would install"}

\* the listings `list --format=freeze` can print
Snapshots == {"six==1.15.0", "six==1.16.0"}

\* name and requirements: one of them is required, both are excluded
\* (lines 522-523)
NameOrRequirements ==
    { [name |-> Some(n), requirements |-> None] : n \in NameInputs }
    \cup { [name |-> None, requirements |-> Some(r)] : r \in RequirementsInputs }

\* virtualenv and executable exclude each other (line 523)
EnvOrExecutable ==
    { [virtualenv |-> None, virtualenv_site_packages |-> FALSE,
       virtualenv_command |-> DefaultVenvCommand, virtualenv_python |-> None,
       executable |-> e] : e \in Executables }
    \cup { [virtualenv |-> Some(VenvPath), virtualenv_site_packages |-> sp,
            virtualenv_command |-> c, virtualenv_python |-> py,
            executable |-> DefaultExecutable] :
            sp \in BOOLEAN, c \in VenvCommands,
            py \in {None, Some(VenvPython)} }

\* extra_args and editable
ArgOptions ==
    { [extra_args |-> None, editable |-> FALSE],
      [extra_args |-> None, editable |-> TRUE] }
    \cup { [extra_args |-> Some(x), editable |-> FALSE] : x \in ExtraArgsInputs }

\* module.params and module.check_mode (lines 505-534)
ParamSpace ==
    { [state |-> st, name |-> nr.name, version |-> v,
       requirements |-> nr.requirements,
       virtualenv |-> ee.virtualenv,
       virtualenv_site_packages |-> ee.virtualenv_site_packages,
       virtualenv_command |-> ee.virtualenv_command,
       virtualenv_python |-> ee.virtualenv_python,
       executable |-> ee.executable,
       extra_args |-> ao.extra_args, editable |-> ao.editable,
       umask |-> u, check_mode |-> cm] :
       st \in States, nr \in NameOrRequirements,
       v \in {None} \cup {Some(x) : x \in Versions},
       ee \in EnvOrExecutable, ao \in ArgOptions,
       u \in {None} \cup {Some(x) : x \in UmaskInputs},
       cm \in BOOLEAN }

-----------------------------------------------------------------------------
(* A run of main()                                                         *)

Init ==
    /\ RecoverIdle
    /\ params \in ParamSpace
    /\ venv_exists \in BOOLEAN
    /\ system_umask \in SystemUmasks
    /\ proc_umask = system_umask
    /\ old_umask = None
    /\ venv_created = FALSE
    /\ out_freeze_before = None
    /\ out_freeze_after = None
    /\ last = None
    /\ calls = <<>>
    /\ rcs = <<>>
    /\ outcome = "none"
    /\ msg = None
    /\ changed = None
    /\ pc = "start"

\* module.exit_json(changed=chg): SystemExit, caught by the finally clause
ExitJson(chg) ==
    /\ outcome' = "exit"
    /\ msg' = None
    /\ changed' = Some(chg)
    /\ pc' = "finally"

\* module.fail_json(msg=m): SystemExit, caught by the finally clause
FailJson(m) ==
    /\ outcome' = "fail"
    /\ msg' = Some(m)
    /\ changed' = None
    /\ pc' = "finally"

Goto(p) ==
    /\ pc' = p
    /\ UNCHANGED <<outcome, msg, changed>>

\* lines 540-549: parse the umask option and override the process umask
SetUmask ==
    /\ pc = "start"
    /\ IF Truthy(params.umask) /\ ~IsOctal(Value(params.umask))
       THEN \* line 544, before the try statement
            /\ outcome' = "fail"
            /\ msg' = Some("umask must be an octal integer")
            /\ pc' = "done"
            /\ UNCHANGED <<changed, proc_umask, old_umask>>
       ELSE IF params.umask = None
       THEN /\ Goto("try")
            /\ UNCHANGED <<proc_umask, old_umask>>
       ELSE IF Value(params.umask) = <<>>
       THEN \* os.umask('') raises TypeError, before the try statement
            /\ outcome' = "crash"
            /\ msg' = Some("TypeError")
            /\ pc' = "done"
            /\ UNCHANGED <<changed, proc_umask, old_umask>>
       ELSE /\ old_umask' = Some(proc_umask)
            /\ proc_umask' = IntBase8(Value(params.umask))
            /\ Goto("try")
    /\ UNCHANGED rvars
    /\ UNCHANGED <<params, venv_exists, system_umask, venv_created,
                   out_freeze_before, out_freeze_after, last, calls,
                   rcs>>

\* lines 551-566: state/version check, does the environment exist
Try ==
    /\ pc = "try"
    /\ IF params.state = "latest" /\ params.version # None
       THEN /\ FailJson("version is incompatible with state=latest")
            /\ UNCHANGED venv_created
       ELSE IF Truthy(params.virtualenv) /\ ~venv_exists
       THEN /\ venv_created' = TRUE
            /\ Goto("setup_virtualenv")
       ELSE /\ Goto("get_pip")
            /\ UNCHANGED venv_created
    /\ UNCHANGED rvars
    /\ UNCHANGED <<params, venv_exists, system_umask, proc_umask, old_umask,
                   out_freeze_before, out_freeze_after, last, calls,
                   rcs>>

\* _get_cmd_options: the subprocess calls it issues (line 342)
GetCmdOptionsCalls == <<"help">>

\* setup_virtualenv, lines 405-424: check mode, resolve the command, probe
\* its options. found: get_bin_path finds cmd[0]; rc: exit code of --help.
SetupVirtualenv ==
    /\ pc = "setup_virtualenv"
    /\ \E found \in BOOLEAN, rc \in ReturnCodes :
         LET cmd == ShlexSplit(params.virtualenv_command)
         IN  IF params.check_mode
             THEN ExitJson(TRUE) /\ UNCHANGED <<calls, rcs>>
             ELSE IF Basename(cmd[1]) = cmd[1] /\ ~found
             THEN FailJson("Failed to find required executable")
                  /\ UNCHANGED <<calls, rcs>>
             ELSE IF params.virtualenv_site_packages
             THEN Goto("create_virtualenv") /\ UNCHANGED <<calls, rcs>>
             ELSE /\ calls' = calls \o GetCmdOptionsCalls
                  /\ rcs' = rcs \o ExitCodes(GetCmdOptionsCalls, rc)
                  /\ IF rc # 0
                     THEN FailJson("Could not get output from --help")
                     ELSE Goto("create_virtualenv")
    /\ UNCHANGED rvars
    /\ UNCHANGED <<params, venv_exists, system_umask, proc_umask, old_umask,
                   venv_created, out_freeze_before, out_freeze_after, last>>

\* setup_virtualenv, lines 426-456: interpreter option, run the command.
\* rc: exit code of the provisioning command.
CreateVirtualenv ==
    /\ pc = "create_virtualenv"
    /\ \E rc \in ReturnCodes :
         IF /\ IsVenvCommand(params.virtualenv_command)
            /\ Truthy(params.virtualenv_python)
         THEN /\ FailJson("virtualenv_python should not be used")
              /\ UNCHANGED <<calls, rcs, venv_exists>>
         ELSE /\ calls' = Append(calls, "virtualenv")
              /\ rcs' = Append(rcs, rc)
              /\ IF rc # 0
                 THEN FailJson("virtualenv") /\ UNCHANGED venv_exists
                 ELSE Goto("get_pip") /\ venv_exists' = TRUE
    /\ UNCHANGED rvars
    /\ UNCHANGED <<params, system_umask, proc_umask, old_umask,
                   venv_created, out_freeze_before, out_freeze_after, last>>

\* lines 569-635: locate the tool, reconstruct and validate the
\* requirements. found: get_bin_path finds the executable.
GetPip ==
    /\ pc = "get_pip"
    /\ \E found \in BOOLEAN :
         LET argv == ShlexSplit(params.executable)
         IN  IF ~IsAbs(argv[1]) /\ ~found
             THEN FailJson("Unable to find any of uv to use")
             ELSE IF /\ Truthy(params.name)
                     /\ params.version # None
                     /\ Len(RecoverPackageName(Value(params.name))) > 1
             THEN FailJson("'version' argument is ambiguous")
             ELSE IF /\ Truthy(params.name)
                     /\ params.version # None
                     /\ HasVersionSpecifier(
                            RecoverPackageName(Value(params.name))[1])
             THEN FailJson("The 'version' argument conflicts")
             ELSE IF ~Truthy(params.name) /\ ~Truthy(params.requirements)
             THEN ExitJson(FALSE)
             ELSE Goto("check_mode")
    /\ UNCHANGED rvars
    /\ UNCHANGED <<params, venv_exists, system_umask, proc_umask, old_umask,
                   venv_created, out_freeze_before, out_freeze_after, last,
                   calls, rcs>>

\* lines 637-651: check mode. rc, err: exit code and stderr of the dry run.
CheckMode ==
    /\ pc = "check_mode"
    /\ \E rc \in ReturnCodes, err \in SUBSET DryRunMarkers :
         IF ~params.check_mode
         THEN Goto("freeze_before") /\ UNCHANGED <<calls, rcs, last>>
         ELSE IF ConservativeCheck(params)
         THEN ExitJson(TRUE) /\ UNCHANGED <<calls, rcs, last>>
         ELSE /\ calls' = Append(calls, "dry-run")
              /\ rcs' = Append(rcs, rc)
              /\ last' = Some([rc |-> rc, out |-> {}, err |-> err])
              /\ IF rc # 0 THEN FailJson("dry-run") ELSE ExitJson(err # {})
    /\ UNCHANGED rvars
    /\ UNCHANGED <<params, venv_exists, system_umask, proc_umask, old_umask,
                   venv_created, out_freeze_before, out_freeze_after>>

\* lines 653-655: the listing before the command. rc, snap: exit code and
\* stdout of the listing.
FreezeBefore ==
    /\ pc = "freeze_before"
    /\ \E rc \in ReturnCodes, snap \in Snapshots :
         IF NeedsSnapshot(params)
         THEN /\ calls' = calls \o GetPackagesCalls(rc)
              /\ rcs' = rcs \o ExitCodes(GetPackagesCalls(rc), rc)
              /\ IF rc # 0
                 THEN FailJson("list") /\ UNCHANGED out_freeze_before
                 ELSE Goto("run_command") /\ out_freeze_before' = Some(snap)
         ELSE Goto("run_command")
              /\ UNCHANGED <<calls, rcs, out_freeze_before>>
    /\ UNCHANGED rvars
    /\ UNCHANGED <<params, venv_exists, system_umask, proc_umask, old_umask,
                   venv_created, out_freeze_after, last>>

\* lines 657-670 and 675-679: the main command and the change it reports.
\* rc, out_pip, err_pip: its exit code and the phrases in its output.
RunCommand ==
    /\ pc = "run_command"
    /\ \E rc \in ReturnCodes, out_pip \in SUBSET OutMarkers,
          err_pip \in SUBSET ErrMarkers :
         /\ calls' = Append(calls, "command")
         /\ rcs' = Append(rcs, rc)
         /\ last' = Some([rc |-> rc, out |-> out_pip, err |-> err_pip])
         /\ IF rc # 0 /\ ~Whitelisted(rc, params.state, out_pip, err_pip)
            THEN FailJson("command")
            ELSE IF params.state = "absent"
            THEN ExitJson(("Successfully uninstalled" \in out_pip)
                          \/ venv_created)
            ELSE IF out_freeze_before = None
            THEN ExitJson(("Successfully installed" \in out_pip)
                          \/ venv_created)
            ELSE Goto("freeze_after")
    /\ UNCHANGED rvars
    /\ UNCHANGED <<params, venv_exists, system_umask, proc_umask, old_umask,
                   venv_created, out_freeze_before, out_freeze_after>>

\* lines 672-679: the listing after the command. rc, snap: exit code and
\* stdout of the listing.
FreezeAfter ==
    /\ pc = "freeze_after"
    /\ \E rc \in ReturnCodes, snap \in Snapshots :
         /\ calls' = calls \o GetPackagesCalls(rc)
         /\ rcs' = rcs \o ExitCodes(GetPackagesCalls(rc), rc)
         /\ IF rc # 0
            THEN FailJson("list") /\ UNCHANGED out_freeze_after
            ELSE /\ out_freeze_after' = Some(snap)
                 /\ ExitJson((out_freeze_before # Some(snap)) \/ venv_created)
    /\ UNCHANGED rvars
    /\ UNCHANGED <<params, venv_exists, system_umask, proc_umask, old_umask,
                   venv_created, out_freeze_before, last>>

FinallyNoRestore ==
    /\ pc = "finally"
    /\ pc' = "done"
    /\ UNCHANGED rvars
    /\ UNCHANGED <<params, venv_exists, system_umask, proc_umask, old_umask,
                   venv_created, out_freeze_before, out_freeze_after, last,
                   calls, rcs, outcome, msg, changed>>

\* lines 680-682: the finally clause
Finally ==
    /\ pc = "finally"
    /\ proc_umask' = IF old_umask # None THEN Value(old_umask) ELSE proc_umask
    /\ pc' = "done"
    /\ UNCHANGED rvars
    /\ UNCHANGED <<params, venv_exists, system_umask, old_umask,
                   venv_created, out_freeze_before, out_freeze_after, last,
                   calls, rcs, outcome, msg, changed>>

Next ==
    \/ SetUmask
    \/ Try
    \/ SetupVirtualenv
    \/ CreateVirtualenv
    \/ GetPip
    \/ CheckMode
    \/ FreezeBefore
    \/ RunCommand
    \/ FreezeAfter
    \/ Finally

Spec == Init /\ [][Next]_vars

-----------------------------------------------------------------------------
(* Properties of a run of main()                                           *)

\* the run has ended by a fail_json call or an uncaught exception
Fatal == outcome \in {"fail", "crash"}

\* the main command has returned
CommandRan == \E i \in 1..Len(calls) : calls[i] = "command"

\* a version override together with a name that reconstructs to two or
\* more requirements
AmbiguousVersion ==
    /\ params.version # None
    /\ Truthy(params.name)
    /\ Len(RecoverPackageName(Value(params.name))) >= 2

\* C4 as stated: with a version override and two or more requirements no
\* subprocess is ever run, and the run ends in a fatal failure.
C4_AmbiguousVersionFailsBeforeAnySubprocess ==
    AmbiguousVersion =>
        /\ calls = <<>>
        /\ pc = "done" => Fatal

\* provisioning is needed, with a venv-style command and an explicit
\* interpreter
VenvStyleWithPython ==
    /\ ~params.check_mode
    /\ Truthy(params.virtualenv)
    /\ venv_created \/ (pc \in {"start", "try"} /\ ~venv_exists)
    /\ IsVenvCommand(params.virtualenv_command)
    /\ Truthy(params.virtualenv_python)

\* C5 as stated: when provisioning is needed with a venv-style command and
\* virtualenv_python set, no subprocess is ever run (not even the --help
\* probe) and the run ends in a fatal failure.
C5_VenvPythonFailsBeforeAnySubprocess ==
    VenvStyleWithPython =>
        /\ calls = <<>>
        /\ pc = "done" => Fatal

\* state=absent outside check mode, and the main command has exited with
\* code 1 and "not installed" in its stdout or stderr
AbsentNotInstalled ==
    /\ params.state = "absent"
    /\ ~params.check_mode
    /\ CommandRan
    /\ Value(last).rc = 1
    /\ \/ "not installed" \in Value(last).out
       \/ "not installed" \in Value(last).err

\* C6 as stated: such a run exits successfully and reports changed=false.
C6_AbsentNotInstalledIsUnchanged ==
    AbsentNotInstalled =>
        /\ outcome = "exit"
        /\ changed = Some(FALSE)

\* C6 (amended): such a run exits successfully, and reports changed=false
\* unless the virtual environment was created during the run or the stdout
\* of the command also holds "Successfully uninstalled"; in those two cases
\* it reports changed=true.
C6_AbsentNotInstalledIsNoFailure ==
    AbsentNotInstalled =>
        /\ outcome = "exit"
        /\ changed = Some(venv_created
                          \/ "Successfully uninstalled" \in Value(last).out)

C6_Witness ==
    /\ AbsentNotInstalled
    /\ pc = "done"
    /\ "not installed" \notin Value(last).out
    /\ "not installed" \in Value(last).err
    /\ changed = Some(FALSE)

\* a requirements file or a VCS-url name is involved
SnapshotInvolved ==
    \/ Truthy(params.requirements)
    \/ /\ params.name # None
       /\ \E i \in 1..Len(Value(params.name)) : IsVcsUrl(Value(params.name)[i])

\* state present, latest or forcereinstall outside check mode
InstallRun == params.state # "absent" /\ ~params.check_mode

\* the before-snapshot is taken exactly when a requirements file or a
\* VCS-url name is involved
SnapshotTakenWhenInvolved ==
    /\ (\E i \in 1..Len(calls) : calls[i] = "list") => SnapshotInvolved
    /\ pc = "run_command" =>
          /\ (out_freeze_before # None <=> SnapshotInvolved)
          /\ SnapshotInvolved => calls[Len(calls)] = "list"

\* C7 as stated: the before-snapshot is taken exactly when a requirements
\* file or a VCS-url name is involved; a successful run reports
\* changed = (before # after) when it was taken and changed = ("Successfully
\* installed" in stdout) when it was not.
C7_ChangedIsSnapshotInequality ==
    InstallRun =>
        /\ SnapshotTakenWhenInvolved
        /\ (outcome = "exit" /\ CommandRan) =>
              IF out_freeze_before # None
              THEN changed = Some(out_freeze_before # out_freeze_after)
              ELSE changed = Some("Successfully installed" \in Value(last).out)

\* C7 (amended): the before-snapshot is taken exactly when a requirements
\* file or a VCS-url name is involved; a successful run reports
\* changed = (before # after or the environment was created during the
\* run) when it was taken and changed = ("Successfully installed" in stdout
\* or the environment was created during the run) when it was not.
C7_ChangedIsSnapshotInequalityOrVenvCreated ==
    InstallRun =>
        /\ SnapshotTakenWhenInvolved
        /\ (outcome = "exit" /\ CommandRan) =>
              IF out_freeze_before # None
              THEN changed = Some((out_freeze_before # out_freeze_after)
                                  \/ venv_created)
              ELSE changed = Some(("Successfully installed" \in Value(last).out)
                                  \/ venv_created)

C7_Witness ==
    /\ InstallRun
    /\ pc = "done"
    /\ outcome = "exit"
    /\ HasVcs(params.name)
    /\ ~venv_created
    /\ out_freeze_before # None
    /\ out_freeze_before = out_freeze_after
    /\ "Successfully installed" \in Value(last).out
    /\ changed = Some(FALSE)

\* check mode with a requirements file set
CheckWithRequirements == params.check_mode /\ Truthy(params.requirements)

\* C8 as stated: in check mode with a requirements file no subprocess is
\* ever run and every run ends by reporting changed=true.
C8_CheckRequirementsAlwaysChanged ==
    CheckWithRequirements =>
        /\ calls = <<>>
        /\ pc = "done" => (outcome = "exit" /\ changed = Some(TRUE))

\* C8 (amended): in check mode with a requirements file no subprocess is
\* ever run, and every run ends by reporting changed=true unless it fails
\* on the umask option, on version given with state=latest, or on the
\* package tool not being found.
C8_CheckRequirementsChangedUnlessRejected ==
    CheckWithRequirements =>
        /\ calls = <<>>
        /\ pc = "done" =>
              \/ outcome = "exit" /\ changed = Some(TRUE)
              \/ /\ Fatal
                 /\ msg \in { Some("umask must be an octal integer"),
                              Some("TypeError"),
                              Some("version is incompatible with state=latest"),
                              Some("Unable to find any of uv to use") }

C8_Witness ==
    /\ CheckWithRequirements
    /\ pc = "done"
    /\ outcome = "exit"
    /\ changed = Some(TRUE)
    /\ ~venv_created
    /\ params.state = "present"
    /\ ~Truthy(ExtraArgs(params))

\* C9: when the run has ended, the process umask is the one in force
\* before the run, on every exit path.
C9_UmaskRestoredOnEveryExit ==
    pc = "done" => proc_umask = system_umask

C9_Witness ==
    /\ pc = "done"
    /\ old_umask # None
    /\ IntBase8(Value(params.umask)) # system_umask
    /\ outcome = "fail"
    /\ Len(calls) >= 2

\* C10 as stated: a run issues at most four subprocess calls.
C10_AtMostFourCalls == Len(calls) <= 4

\* C10 (amended): a run issues at most five subprocess calls.
C10_AtMostFiveCalls == Len(calls) <= 5

C10_Witness ==
    /\ pc = "done"
    /\ outcome = "exit"
    /\ calls = <<"help", "virtualenv", "list", "command", "list">>

\* the provisioning command has run and succeeded during this run
EnvironmentCreated ==
    /\ venv_created
    /\ \E i \in 1..Len(calls) : calls[i] = "virtualenv"
    /\ pc \notin {"setup_virtualenv", "create_virtualenv"}
    /\ ~(outcome = "fail" /\ calls[Len(calls)] = "virtualenv")

\* C11 as stated: if the virtual environment was created during the run,
\* every successful exit of the run reports changed=true, whichever exit
\* branch is taken.
C11_VenvCreatedForcesChanged ==
    (EnvironmentCreated /\ outcome = "exit") => changed = Some(TRUE)

\* call i is the whitelisted failure: the main command under state=absent
\* exiting with code 1 and "not installed" in its output
WhitelistedExit(i) ==
    /\ calls[i] = "command"
    /\ params.state = "absent"
    /\ rcs[i] = 1
    /\ \/ "not installed" \in Value(last).out
       \/ "not installed" \in Value(last).err

\* C12: no call is issued again right after itself, and a call that exits
\* non-zero, other than the whitelisted case, is the last call of the run
\* and the run fails with it.
C12_NoRetryAndFailureIsFinal ==
    /\ Len(rcs) = Len(calls)
    /\ \A i \in 1..(Len(calls) - 1) : calls[i] # calls[i + 1]
    /\ \A i \in 1..Len(calls) :
          (rcs[i] # 0 /\ ~WhitelistedExit(i)) =>
              /\ i = Len(calls)
              /\ outcome = "fail"

C12_Witness ==
    /\ pc = "done"
    /\ outcome = "fail"
    /\ params.state = "absent"
    /\ calls = <<"help", "virtualenv", "list", "command">>
    /\ rcs = <<0, 0, 0, 1>>
    /\ "not installed" \notin Value(last).out
    /\ "not installed" \notin Value(last).err

\* C13: joining the returned list with "," gives the same string as
\* joining the argument with ",": no token is dropped, duplicated or
\* reordered; a bare version clause given as the first token is at the
\* start of the first returned requirement.
C13_JoinedOutputEqualsJoinedInput ==
    rpc = "returned" =>
        /\ Join(package_names) = Join(names)
        /\ StartsWithComparison(Tokens[1]) =>
              /\ package_names # <<>>
              /\ StartsWith(package_names[1], Tokens[1])
              /\ Split(package_names[1])[1] = Tokens[1]

C13_Witness ==
    /\ rpc = "returned"
    /\ Len(names) >= 2
    /\ names # Tokens
    /\ StartsWithComparison(Tokens[1])
    /\ Len(package_names) >= 2
    /\ Len(Split(package_names[1])) >= 2

=============================================================================
